---- MODULE Spec2Model ----
(***************************************************************************)
(* A model of autogen/generator.py (cypari2): the eligibility filter       *)
(* can_handle_function, the per-function dispatcher handle_pari_function,  *)
(* the emitters write_declaration / write_method and the top-level run     *)
(* PariFunctionGenerator.__call__ with its write-to-.tmp-then-rename       *)
(* output discipline.                                                      *)
(*                                                                         *)
(* Strings that the code inspects character by character (function names)  *)
(* are sequences of one-character strings; all other strings are opaque.   *)
(* A catalog record is a function from a subset of the keys                *)
(* function, cname, prototype, help, obsolete, class, section to values.   *)
(***************************************************************************)
EXTENDS Integers, Sequences, FiniteSets, TLC

VARIABLES
    src,            \* the records in the order read_pari_desc().values() yields them
    undocumented,   \* the function names the documentation source has no text for
    D,              \* the sorted list the loop of __call__ iterates over
    idx,            \* position of the loop of __call__ in D (1-based)
    pc,             \* the statement of __call__ / handle_pari_function about to run
    tmp,            \* content of the three '.tmp' streams
    isOpen,         \* which of the three '.tmp' streams are open
    final,          \* content of the three final paths
    have_plot_svg,  \* the local flag of __call__
    prev,           \* content of the three final paths when the current run started
    lastOut,        \* the final paths as the last run that returned left them
    run,            \* number of the current run of __call__
    fin,            \* can_handle_function: the arguments of the last call
    fout            \* can_handle_function: the value returned by the last call

vars == <<src, undocumented, D, idx, pc, tmp, isOpen, final, have_plot_svg, prev, lastOut,
          run, fin, fout>>

(***************************************************************************)
(* Bounds of the model.                                                    *)
(***************************************************************************)
MaxRecords == 2     \* records in a catalog
MaxRuns == 2        \* consecutive runs of __call__ on the same catalog
MaxNameLen == 2     \* length of the enumerated function names given to the filter

(***************************************************************************)
(* Characters and strings.                                                 *)
(***************************************************************************)
Lower == <<"a", "b", "c", "d", "e", "f", "g", "h", "i", "j", "k", "l", "m",
           "n", "o", "p", "q", "r", "s", "t", "u", "v", "w", "x", "y", "z">>
Upper == <<"A", "B", "C", "D", "E", "F", "G", "H", "I", "J", "K", "L", "M",
           "N", "O", "P", "Q", "R", "S", "T", "U", "V", "W", "X", "Y", "Z">>
Digit == <<"0", "1", "2", "3", "4", "5", "6", "7", "8", "9">>

IsIn(c, s) == \E i \in 1..Len(s) : s[i] = c
IndexIn(c, s) == CHOOSE i \in 1..Len(s) : s[i] = c

IsLetter(c) == IsIn(c, Lower) \/ IsIn(c, Upper)
IsDigit(c) == IsIn(c, Digit)
IsWordChar(c) == IsLetter(c) \/ IsDigit(c) \/ c = "_"

\* The printable ASCII characters in the order of their code points: 32 to 95
\* and 97 to 126 (a string constant cannot hold the grave accent, 96).
AsciiTo95 ==
    <<" ", "!", "\"", "#", "$", "%", "&", "'", "(", ")", "*", "+",
      ",", "-", ".", "/", "0", "1", "2", "3", "4", "5", "6", "7",
      "8", "9", ":", ";", "<", "=", ">", "?", "@", "A", "B", "C",
      "D", "E", "F", "G", "H", "I", "J", "K", "L", "M", "N", "O",
      "P", "Q", "R", "S", "T", "U", "V", "W", "X", "Y", "Z", "[",
      "\\", "]", "^", "_">>
AsciiFrom97 ==
    <<"a", "b", "c", "d", "e", "f", "g", "h", "i", "j", "k", "l",
      "m", "n", "o", "p", "q", "r", "s", "t", "u", "v", "w", "x",
      "y", "z", "{", "|", "}", "~">>

\* ord(c), the code point Python compares strings by, for an ASCII character:
\* a printable one or one of the three control characters of a text line.
Ord ==
    [c \in {"\t", "\n", "\r"} |-> CASE c = "\t" -> 9 [] c = "\n" -> 10 [] c = "\r" -> 13]
    @@ [c \in {AsciiTo95[i] : i \in 1..Len(AsciiTo95)} |-> 31 + IndexIn(c, AsciiTo95)]
    @@ [c \in {AsciiFrom97[i] : i \in 1..Len(AsciiFrom97)} |-> 96 + IndexIn(c, AsciiFrom97)]

CodePoint(c) == Ord[c]

\* Python's s < t on strings: lexicographic by code point, a proper prefix first.
RECURSIVE StrLess(_, _)
StrLess(s, t) ==
    IF t = <<>> THEN FALSE
    ELSE IF s = <<>> THEN TRUE
    ELSE IF CodePoint(Head(s)) # CodePoint(Head(t))
         THEN CodePoint(Head(s)) < CodePoint(Head(t))
    ELSE StrLess(Tail(s), Tail(t))

\* Python's dict.get(key, default) on a record.
Get(d, key, default) == IF key \in DOMAIN d THEN d[key] ELSE default

(***************************************************************************)
(* can_handle_function                                                     *)
(***************************************************************************)
function_blacklist ==
    { <<"O">>,
      <<"a", "l", "i", "a", "s">>,
      <<"l", "i", "s", "t", "c", "r", "e", "a", "t", "e">>,
      <<"a", "l", "l", "o", "c", "a", "t", "e", "m", "e", "m">>,
      <<"g", "l", "o", "b", "a", "l">>,
      <<"i", "n", "l", "i", "n", "e">>,
      <<"u", "n", "i", "n", "l", "i", "n", "e">>,
      <<"l", "o", "c", "a", "l">>,
      <<"m", "y">> }

\* The body of the pattern, [A-Za-z][A-Za-z0-9_]*, matched against all of s.
IsIdentifier(s) ==
    /\ Len(s) >= 1
    /\ IsLetter(s[1])
    /\ \A i \in 2..Len(s) : IsWordChar(s[i])

\* function_re.match(s) for function_re = re.compile(r"^[A-Za-z][A-Za-z0-9_]*$").
\* Without re.MULTILINE, '$' matches at the end of the string and also just
\* before a newline that is the last character of the string.
function_re(s) ==
    \/ IsIdentifier(s)
    \/ /\ Len(s) >= 2
       /\ s[Len(s)] = "\n"
       /\ IsIdentifier(SubSeq(s, 1, Len(s) - 1))

\* can_handle_function(**d) for a record d that has the key 'function'.
can_handle_function(d) ==
    LET cls == Get(d, "class", "unknown")
        sec == Get(d, "section", "unknown")
    IN  IF d.function \in function_blacklist THEN FALSE
        ELSE IF ~function_re(d.function) THEN FALSE
        ELSE IF cls # "basic" THEN FALSE
        ELSE IF sec = "programming/control" THEN FALSE
        ELSE TRUE

(***************************************************************************)
(* parse_prototype (autogen/parser.py) and the argument / return kinds     *)
(* (autogen/args.py, autogen/ret.py).  A prototype is a sequence of        *)
(* characters; the first one may be a return-type code.                    *)
(***************************************************************************)
None == <<"None">>      \* Python's None where a string (a sequence) is expected

pari_ret_types == {"v", "l", "i", "m"}
pari_arg_types == {"G", "L", "U", "n", "s", "p"}

ArgKind(c) ==
    CASE c = "G" -> "GEN"
      [] c = "L" -> "long"
      [] c = "U" -> "ulong"
      [] c = "n" -> "var"
      [] c = "s" -> "string"
      [] c = "p" -> "prec"

RetKind(c) ==
    CASE c = "v" -> "void"
      [] c = "l" -> "long"
      [] c = "i" -> "int"
      [] c = "m" -> "GEN"

\* The leading context argument of the instance-method family.
PariInstanceArgument ==
    [kind |-> "instance", name |-> "self", default |-> None, documented |-> TRUE]

SynthName == <<"_arg0", "_arg1", "_arg2", "_arg3", "_arg4", "_arg5">>

\* Number of arguments in args that took their name from the help text.
RECURSIVE NamesUsed(_)
NamesUsed(args) ==
    IF args = <<>> THEN 0
    ELSE (IF Head(args).kind \in {"instance", "prec"} THEN 0 ELSE 1)
         + NamesUsed(Tail(args))

\* The argument built for type code c with default d, appended after args.
NewArg(c, d, names, args) ==
    LET k == NamesUsed(args) + 1
    IN  IF ArgKind(c) = "prec"
        THEN [kind |-> "prec", name |-> "precision", default |-> <<"0">>,
              documented |-> TRUE]
        ELSE [kind |-> ArgKind(c),
              name |-> IF k <= Len(names) THEN names[k] ELSE SynthName[Len(args) + 1],
              default |-> d,
              documented |-> k <= Len(names)]

\* Position of the first "," of proto at or after n (0 when there is none).
RECURSIVE CommaFrom(_, _)
CommaFrom(proto, n) ==
    IF n > Len(proto) THEN 0
    ELSE IF proto[n] = "," THEN n
    ELSE CommaFrom(proto, n + 1)

\* The scan of the argument codes of proto from cursor n on.
RECURSIVE ScanArgs(_, _, _, _)
ScanArgs(proto, n, names, args) ==
    IF n > Len(proto) THEN [ok |-> TRUE, args |-> args]
    ELSE IF proto[n] = "," THEN ScanArgs(proto, n + 1, names, args)
    ELSE IF proto[n] = "D"
    THEN \* optional marker: an inline default up to the next comma, then the code
         IF n + 1 > Len(proto) THEN [ok |-> FALSE, args |-> args]
         ELSE IF proto[n + 1] \in pari_arg_types
         THEN ScanArgs(proto, n + 2, names,
                       Append(args, NewArg(proto[n + 1], <<>>, names, args)))
         ELSE LET e == CommaFrom(proto, n + 1)
              IN  IF e = 0 \/ e + 1 > Len(proto) \/ proto[e + 1] \notin pari_arg_types
                  THEN [ok |-> FALSE, args |-> args]
                  ELSE ScanArgs(proto, e + 2, names,
                                Append(args, NewArg(proto[e + 1],
                                                    SubSeq(proto, n + 1, e - 1),
                                                    names, args)))
    ELSE IF proto[n] \in pari_arg_types
    THEN ScanArgs(proto, n + 1, names, Append(args, NewArg(proto[n], None, names, args)))
    ELSE [ok |-> FALSE, args |-> args]      \* a code the model does not implement

\* parse_prototype(proto, help, initial_args): ok = FALSE stands for the
\* unsupported-prototype error (NotImplementedError).
parse_prototype(proto, names, initial_args) ==
    LET hasRet == Len(proto) >= 1 /\ proto[1] \in pari_ret_types
        r == ScanArgs(proto, IF hasRet THEN 2 ELSE 1, names, initial_args)
    IN  [ok |-> r.ok, args |-> r.args,
         ret |-> IF hasRet THEN RetKind(proto[1]) ELSE "GEN"]

\* a.ctype()
ctype(a) ==
    CASE a.kind = "GEN" -> "GEN"
      [] a.kind = "long" -> "long"
      [] a.kind = "ulong" -> "unsigned long"
      [] a.kind = "var" -> "long"
      [] a.kind = "string" -> "char *"
      [] a.kind = "prec" -> "long"
      [] OTHER -> "object"

\* ret.ctype()
ret_ctype(ret) == IF ret = "GEN" THEN "GEN" ELSE ret

\* a.prototype_code(): the fragment of the parameter list, as text pieces.
prototype_code(a) ==
    LET typed == IF a.kind \in {"long", "ulong", "prec"} THEN <<ctype(a), a.name>>
                 ELSE <<a.name>>
    IN  IF a.default = None THEN typed
        ELSE IF a.default = <<>>
        THEN typed \o (IF a.kind \in {"long", "ulong"} THEN <<"=", "0">>
                       ELSE <<"=", "None">>)
        ELSE typed \o <<"=">> \o a.default

\* Does the argument need a conversion statement before the native call?
NeedsConversion(a) == a.kind \in {"GEN", "var", "string", "prec"}

\* a.call_code(): the fragment used in the native call.
call_code(a) == IF NeedsConversion(a) /\ a.kind # "prec" THEN <<"_", a.name>> ELSE <<a.name>>

(***************************************************************************)
(* get_rest_doc (autogen/doc.py): the documentation of a function, as a    *)
(* sequence of text pieces, every line break a piece "\n"; empty when      *)
(* there is none.  The documentation source is outside the generator and   *)
(* does not change between runs: it has a text for every function name     *)
(* but those in the set undocumented.                                      *)
(***************************************************************************)
\* The text of the documentation source for a function name.
DocText(function) ==
    IF function = <<"b", "n", "f", "i", "n", "i", "t">>
    THEN <<"Initializes a bnf structure.", "\n", "Used in programs such as bnfisprincipal.">>
    ELSE IF function = <<"s", "e", "t", "r", "a", "n", "d">>
    THEN <<"Reseeds the random number generator", "\n", "using the seed n.">>
    ELSE IF function = <<"b", "e", "r", "n", "v", "e", "c">>
    THEN <<"This routine is obsolete, kept for backward compatibility only.">>
    ELSE IF function = <<"p", "o", "l", "r", "e", "d">>
    THEN <<"This function is deprecated,", "\n", "use polredbest instead.">>
    ELSE <<"The documentation of the function.">>

get_rest_doc(function) == IF function \in undocumented THEN <<>> ELSE DocText(function)

(***************************************************************************)
(* Emitted text.  A stream is a sequence of chunks, one per write/print    *)
(* call; a chunk is a sequence of lines; a line is a record naming its     *)
(* kind k, the function name it embeds, an opaque string x, a list of text *)
(* fragments args and a return kind r.                                     *)
(***************************************************************************)
Line(k, name, x, args, r) == [k |-> k, name |-> name, x |-> x, args |-> args, r |-> r]

Map1(f(_), s) == [i \in 1..Len(s) |-> f(s[i])]

RECURSIVE Flatten(_)
Flatten(ss) == IF ss = <<>> THEN <<>> ELSE Head(ss) \o Flatten(Tail(ss))

\* Python's truth value of the 'obsolete' argument (None and "" are false).
PyNone == "<None>"
Truthy(x) == x # PyNone /\ x # ""

\* doc.replace("\n", "\n        "): doc is a sequence of text pieces in which
\* every line break is a piece "\n".
IndentPiece(piece) == IF piece = "\n" THEN "\n        " ELSE piece
IndentDoc(doc) == Map1(IndentPiece, doc)

\* a.deprecation_warning_code(function)
deprecation_warning_code(a, function) ==
    IF a.documented THEN <<>>
    ELSE <<Line("warn_undocumented", function, a.name, <<>>, "")>>

\* a.convert_code()
convert_code(a) ==
    IF NeedsConversion(a)
    THEN <<Line("convert", <<>>, a.name, <<prototype_code(a)>>, a.kind)>>
    ELSE <<>>

\* ret.assign_code("{cname}({callargs})")
assign_code(ret, cname, callargs) == <<Line("call", <<>>, cname, callargs, ret)>>

\* ret.return_code()
return_code(ret) ==
    IF ret = "void" THEN <<Line("clear_stack", <<>>, "", <<>>, ret)>>
    ELSE IF ret = "GEN" THEN <<Line("return", <<>>, "new_gen(_ret)", <<>>, ret)>>
    ELSE <<Line("return", <<>>, "_ret", <<>>, ret)>>

\* The text one call of write_declaration prints.
write_declaration(cname, args, ret) ==
    <<Line("decl", <<>>, cname, Map1(LAMBDA a : <<ctype(a)>>, args), ret_ctype(ret))>>

\* The warning with the marker left out of the message.
ObsoleteWarningWithoutMarker(function, obsolete) ==
    IF Truthy(obsolete)
    THEN <<Line("import_warn", <<>>, "", <<>>, ""),
           Line("warn_obsolete", function, "", <<>>, "")>>
    ELSE <<>>

\* The obsolescence warning of write_method.
ObsoleteWarning(function, obsolete) ==
    IF Truthy(obsolete)
    THEN <<Line("import_warn", <<>>, "", <<>>, ""),
           Line("warn_obsolete", function, obsolete, <<>>, "")>>
    ELSE <<>>

\* write_method with the critical section entered before the conversions.
write_method_sig_on_first(function, cname, args, ret, cargs, doc, obsolete) ==
    LET idoc == IndentDoc(doc)
        protoargs == Map1(prototype_code, args)
        callargs == Map1(call_code, cargs)
    IN  <<Line("def", function, "", protoargs, "")>>
        \o (IF idoc # <<>> THEN <<Line("doc", <<>>, "", <<idoc>>, "")>> ELSE <<>>)
        \o ObsoleteWarning(function, obsolete)
        \o Flatten(Map1(LAMBDA a : deprecation_warning_code(a, function), args))
        \o <<Line("sig_on", <<>>, "", <<>>, "")>>
        \o Flatten(Map1(convert_code, args))
        \o assign_code(ret, cname, callargs)
        \o return_code(ret)

\* The text one call of write_method prints.
write_method(function, cname, args, ret, cargs, doc, obsolete) ==
    LET idoc == IndentDoc(doc)
        protoargs == Map1(prototype_code, args)
        callargs == Map1(call_code, cargs)
    IN  <<Line("def", function, "", protoargs, "")>>
        \o (IF idoc # <<>> THEN <<Line("doc", <<>>, "", <<idoc>>, "")>> ELSE <<>>)
        \o ObsoleteWarning(function, obsolete)
        \o Flatten(Map1(LAMBDA a : deprecation_warning_code(a, function), args))
        \o Flatten(Map1(convert_code, args))
        \o <<Line("sig_on", <<>>, "", <<>>, "")>>
        \o assign_code(ret, cname, callargs)
        \o return_code(ret)

Files == {"gen", "instance", "decl"}

gen_banner == <<Line("banner", <<>>, "cdef class Gen_auto", <<>>, "")>>
instance_banner == <<Line("banner", <<>>, "cdef class Pari_auto", <<>>, "")>>
decl_banner == <<Line("banner", <<>>, "cdef extern from *", <<>>, "")>>

\* "DEF HAVE_PLOT_SVG = {}".format(have_plot_svg)
FlagLine(flag) ==
    <<Line("DEF HAVE_PLOT_SVG", <<>>, IF flag THEN "True" ELSE "False", <<>>, "")>>

\* A path that does not exist, and the files an earlier generation left.
NoFile == << <<Line("no such file", <<>>, "", <<>>, "")>> >>
OldFile(f) == << <<Line("earlier generation", <<>>, f, <<>>, "")>> >>

(***************************************************************************)
(* The catalog.                                                            *)
(***************************************************************************)
bnfinit == <<"b", "n", "f", "i", "n", "i", "t">>
bernvec == <<"b", "e", "r", "n", "v", "e", "c">>
setrand == <<"s", "e", "t", "r", "a", "n", "d">>
plothraw == <<"p", "l", "o", "t", "h", "r", "a", "w">>
polred == <<"p", "o", "l", "r", "e", "d">>
getrand == <<"g", "e", "t", "r", "a", "n", "d">>
clone == <<"c", "l", "o", "n", "e">>
eta == <<"e", "t", "a">>

Pool ==
    { [function |-> bnfinit, cname |-> "bnfinit0",
       prototype |-> <<"G", "D", "0", ",", "L", ",", "D", "G", "p">>,
       help |-> <<"P", "flag", "tech">>,
       class |-> "basic", section |-> "number_fields"],
      [function |-> bernvec, cname |-> "bernvec", prototype |-> <<"L">>,
       help |-> <<"x">>, obsolete |-> "2007-03-30",
       class |-> "basic", section |-> "transcendental"],
      [function |-> setrand, cname |-> "setrand", prototype |-> <<"v", "G">>,
       help |-> <<"n">>, class |-> "basic", section |-> "programming/specific"],
      \* obsolete, and the third parameter is missing from the help text
      [function |-> polred, cname |-> "polred0",
       prototype |-> <<"G", "D", "0", ",", "L", ",", "D", "G">>,
       help |-> <<"T", "flag">>, obsolete |-> "2013-03-27",
       class |-> "basic", section |-> "number_fields"],
      [function |-> plothraw, cname |-> "plothraw0",
       prototype |-> <<"G", "G", "D", "0", ",", "L", ",">>,
       help |-> <<"X", "Y", "flag">>, class |-> "basic", section |-> "graphic"],
      \* plothraw outside the basic class
      [function |-> plothraw, cname |-> "plothraw0",
       prototype |-> <<"G", "G", "D", "0", ",", "L", ",">>,
       help |-> <<"X", "Y", "flag">>, class |-> "gp2c", section |-> "graphic"],
      \* plothraw with a prototype code that is not implemented
      [function |-> plothraw, cname |-> "plothraw0",
       prototype |-> <<"G", "G", "E">>,
       help |-> <<"X", "Y", "f">>, class |-> "basic", section |-> "graphic"],
      \* an operator: its name is not an identifier
      [function |-> <<"+", "_">>, cname |-> "gplus", prototype |-> <<"G">>,
       help |-> <<"x">>, class |-> "basic", section |-> "symbolic_operators"],
      \* no arguments
      [function |-> getrand, cname |-> "getrand", prototype |-> <<>>,
       help |-> <<>>, class |-> "basic", section |-> "programming/specific"],
      \* a gp2c-only entry: no C name, no prototype
      [function |-> clone, class |-> "gp2c", section |-> "programming/internals"],
      \* an eligible entry without a C name
      [function |-> eta, prototype |-> <<"G", "p">>, help |-> <<"z">>,
       class |-> "basic", section |-> "transcendental"],
      \* an entry without a function name
      [cname |-> "eta0", prototype |-> <<"G">>, help |-> <<"z">>,
       class |-> "basic", section |-> "transcendental"] }

HasFunction(d) == "function" \in DOMAIN d

\* The names the documentation source may lack a text for: not bnfinit,
\* setrand or bernvec, whose docstrings the examples of handle_pari_function show.
MaybeUndocumented == {getrand, polred}

\* The names of the catalog s: the only ones the documentation is asked for.
NamesOf(s) == {s[i].function : i \in {j \in 1..Len(s) : HasFunction(s[j])}}

\* The sequences of at most n records read_pari_desc can yield: no record
\* twice, no two records of the same function name.
RECURSIVE Catalogs(_)
Catalogs(n) ==
    IF n = 0 THEN { <<>> }
    ELSE LET shorter == Catalogs(n - 1)
         IN  shorter \cup
             { Append(s, d) : s \in {t \in shorter : Len(t) = n - 1}, d \in Pool }

DistinctNames(s) ==
    \A i, j \in 1..Len(s) :
        i # j => /\ s[i] # s[j]
                 /\ (HasFunction(s[i]) /\ HasFunction(s[j]))
                        => s[i].function # s[j].function

Orders(s) ==
    { t \in [1..Len(s) -> {s[i] : i \in 1..Len(s)}] :
        \A i \in 1..Len(s) : \E j \in 1..Len(s) : t[j] = s[i] }

(***************************************************************************)
(* sorted(D.values(), key=lambda d: d['function']): a stable sort.         *)
(***************************************************************************)
\* s with d inserted after every element whose key is not greater than d's.
RECURSIVE InsertByFunction(_, _)
InsertByFunction(d, s) ==
    IF s = <<>> THEN <<d>>
    ELSE IF StrLess(d.function, Head(s).function) THEN <<d>> \o s
    ELSE <<Head(s)>> \o InsertByFunction(d, Tail(s))

RECURSIVE SortFrom(_, _)
SortFrom(s, acc) ==
    IF s = <<>> THEN acc ELSE SortFrom(Tail(s), InsertByFunction(Head(s), acc))

\* The list left as the source yields it.
Unsorted(s) == s

SortedByFunction(s) == SortFrom(s, <<>>)

(***************************************************************************)
(* PariFunctionGenerator.__call__                                          *)
(***************************************************************************)
banner(f) ==
    CASE f = "gen" -> gen_banner
      [] f = "instance" -> instance_banner
      [] f = "decl" -> decl_banner

\* file.write(text) / print(text, file=file) on an open '.tmp' stream
Written(f, chunk) == [tmp EXCEPT ![f] = Append(@, chunk)]

\* The record the loop is at, and the fields handle_pari_function receives.
v == D[idx]
func == v.function
prototype == Get(v, "prototype", <<>>)
help == Get(v, "help", <<>>)
obsolete == Get(v, "obsolete", PyNone)
plain == parse_prototype(prototype, help, <<>>)
withSelf == parse_prototype(prototype, help, <<PariInstanceArgument>>)

\* No run has returned yet.
NoOutput == [f \in Files |-> NoFile]

InitRun ==
    /\ src \in {s \in Catalogs(MaxRecords) : DistinctNames(s)}
    /\ undocumented \in SUBSET (MaybeUndocumented \cap NamesOf(src))
    /\ D = <<>>
    /\ idx = 1
    /\ pc = "start"
    /\ tmp = [f \in Files |-> NoFile]
    /\ isOpen = [f \in Files |-> FALSE]
    /\ final = [f \in Files |-> OldFile(f)]
    /\ have_plot_svg = FALSE
    /\ prev = final
    /\ lastOut = NoOutput
    /\ run = 1

Init ==
    /\ InitRun
    /\ fin = [function |-> <<>>]
    /\ fout = FALSE

\* D = read_pari_desc(); D = sorted(D.values(), key=lambda d: d['function'])
\* when every record has the key 'function'
ReadAndSort ==
    /\ pc = "start"
    /\ \A i \in 1..Len(src) : HasFunction(src[i])
    /\ D' = SortedByFunction(src)
    /\ pc' = "open_gen"
    /\ UNCHANGED <<src, undocumented, idx, tmp, isOpen, final, have_plot_svg, prev, lastOut,
                 run, fin, fout>>

\* the key function raises KeyError on a record without 'function'
SortKeyError ==
    /\ pc = "start"
    /\ \E i \in 1..Len(src) : ~HasFunction(src[i])
    /\ pc' = "aborted"
    /\ UNCHANGED <<src, undocumented, D, idx, tmp, isOpen, final, have_plot_svg, prev, lastOut,
                 run, fin, fout>>

\* self.<f>_file = io.open(<f>_filename + '.tmp', 'w'): the '.tmp' path is
\* created, or truncated when a run before left it behind, and the new stream
\* takes the place of the one the attribute held.
OpenAt(f, at, next) ==
    /\ pc = at
    /\ tmp' = [tmp EXCEPT ![f] = <<>>]
    /\ isOpen' = [isOpen EXCEPT ![f] = TRUE]
    /\ pc' = next
    /\ UNCHANGED <<src, undocumented, D, idx, final, have_plot_svg, prev, lastOut,
                 run, fin, fout>>

\* self.<f>_file.write(<f>_banner)
WriteBannerAt(f, at, next) ==
    /\ pc = at
    /\ tmp' = Written(f, banner(f))
    /\ pc' = next
    /\ UNCHANGED <<src, undocumented, D, idx, isOpen, final, prev, lastOut,
                 run, fin, fout>>

OpenGen == OpenAt("gen", "open_gen", "banner_gen")
WriteBannerGen ==
    WriteBannerAt("gen", "banner_gen", "open_instance") /\ UNCHANGED have_plot_svg
OpenInstance == OpenAt("instance", "open_instance", "banner_instance")
WriteBannerInstance ==
    WriteBannerAt("instance", "banner_instance", "open_decl") /\ UNCHANGED have_plot_svg
OpenDecl == OpenAt("decl", "open_decl", "banner_decl")
\* ... and, before the loop, have_plot_svg = False
WriteBannerDecl ==
    WriteBannerAt("decl", "banner_decl", "loop") /\ have_plot_svg' = FALSE

\* the else branch of the loop: can_handle_function(**v) is false
Reject ==
    /\ pc = "loop" /\ idx <= Len(D)
    /\ ~can_handle_function(v)
    /\ idx' = idx + 1
    /\ UNCHANGED <<src, undocumented, D, pc, tmp, isOpen, final, have_plot_svg, prev, lastOut,
                 run, fin, fout>>

\* the TypeError swallowed and the record skipped
MissingCnameIgnored ==
    /\ pc = "loop" /\ idx <= Len(D)
    /\ can_handle_function(v)
    /\ "cname" \notin DOMAIN v
    /\ idx' = idx + 1
    /\ UNCHANGED <<src, undocumented, D, pc, tmp, isOpen, final, have_plot_svg, prev, lastOut,
                   run, fin, fout>>

\* handle_pari_function(**v) raises TypeError: no value for the parameter cname
MissingCname ==
    /\ pc = "loop" /\ idx <= Len(D)
    /\ can_handle_function(v)
    /\ "cname" \notin DOMAIN v
    /\ pc' = "aborted"
    /\ UNCHANGED <<src, undocumented, D, idx, tmp, isOpen, final, have_plot_svg, prev, lastOut,
                 run, fin, fout>>

\* The flag set after every accepted record.
FlagAfterAnyFunction(name, flag) == TRUE

\* The flag after an accepted record: set once handle_pari_function has returned.
FlagAfter(name, flag) == IF name = plothraw THEN TRUE ELSE flag

\* the prototype error caught only after the declaration has been written
SkipAfterDeclaration ==
    /\ pc = "loop" /\ idx <= Len(D)
    /\ can_handle_function(v)
    /\ "cname" \in DOMAIN v
    /\ ~plain.ok
    /\ tmp' = Written("decl", write_declaration(v.cname, plain.args, plain.ret))
    /\ have_plot_svg' = FlagAfter(func, have_plot_svg)
    /\ idx' = idx + 1
    /\ UNCHANGED <<src, undocumented, D, pc, isOpen, final, prev, lastOut, run, fin, fout>>

\* handle_pari_function returns at "except NotImplementedError: return";
\* the loop goes on with "if func == 'plothraw'"
SkipUnsupported ==
    /\ pc = "loop" /\ idx <= Len(D)
    /\ can_handle_function(v)
    /\ "cname" \in DOMAIN v
    /\ ~plain.ok
    /\ have_plot_svg' = FlagAfter(func, have_plot_svg)
    /\ idx' = idx + 1
    /\ UNCHANGED <<src, undocumented, D, pc, tmp, isOpen, final, prev, lastOut, run, fin, fout>>

\* the declaration left out
WriteDeclarationOmitted ==
    /\ pc = "loop" /\ idx <= Len(D)
    /\ can_handle_function(v)
    /\ "cname" \in DOMAIN v
    /\ plain.ok
    /\ pc' = "gen"
    /\ UNCHANGED <<src, undocumented, D, idx, tmp, isOpen, final, have_plot_svg, prev, lastOut,
                   run, fin, fout>>

\* handle_pari_function: self.write_declaration(cname, args, ret, self.decl_file)
WriteDeclaration ==
    /\ pc = "loop" /\ idx <= Len(D)
    /\ can_handle_function(v)
    /\ "cname" \in DOMAIN v
    /\ plain.ok
    /\ tmp' = Written("decl", write_declaration(v.cname, plain.args, plain.ret))
    /\ pc' = "gen"
    /\ UNCHANGED <<src, undocumented, D, idx, isOpen, final, have_plot_svg, prev, lastOut,
                 run, fin, fout>>

\* The test without its isinstance part: any first argument qualifies.
FirstIsAny(args) == Len(args) > 0

\* The test of handle_pari_function for a method of the Gen class:
\* len(args) > 0 and isinstance(args[0], PariArgumentGEN)
FirstIsGEN(args) == Len(args) > 0 /\ args[1].kind = "GEN"

\* handle_pari_function: the method of the Gen class, when the first argument is a GEN
WriteGenMethod ==
    /\ pc = "gen"
    /\ tmp' = IF FirstIsGEN(plain.args)
              THEN Written("gen", write_method(func, v.cname, plain.args, plain.ret,
                                               plain.args, get_rest_doc(func), obsolete))
              ELSE tmp
    /\ pc' = "instance"
    /\ UNCHANGED <<src, undocumented, D, idx, isOpen, final, have_plot_svg, prev, lastOut,
                 run, fin, fout>>

\* handle_pari_function: the method of the Pari class, parsed again with "self";
\* then the loop's "if func == 'plothraw'"
WriteInstanceMethod ==
    /\ pc = "instance"
    /\ tmp' = Written("instance",
                      write_method(func, v.cname, withSelf.args, withSelf.ret,
                                   Tail(withSelf.args), get_rest_doc(func), obsolete))
    /\ have_plot_svg' = FlagAfter(func, have_plot_svg)
    /\ idx' = idx + 1
    /\ pc' = "loop"
    /\ UNCHANGED <<src, undocumented, D, isOpen, final, prev, lastOut, run, fin, fout>>

\* the loop is over: self.instance_file.write("DEF HAVE_PLOT_SVG = ...")
WriteFlag ==
    /\ pc = "loop" /\ idx > Len(D)
    /\ tmp' = Written("instance", FlagLine(have_plot_svg))
    /\ pc' = "close_gen"
    /\ UNCHANGED <<src, undocumented, D, idx, isOpen, final, have_plot_svg, prev, lastOut,
                 run, fin, fout>>

\* self.<f>_file.close()
CloseAt(f, at, next) ==
    /\ pc = at
    /\ isOpen' = [isOpen EXCEPT ![f] = FALSE]
    /\ pc' = next
    /\ UNCHANGED <<src, undocumented, D, idx, tmp, final, have_plot_svg, prev, lastOut,
                 run, fin, fout>>

\* os.rename(<f>_filename + '.tmp', <f>_filename)
RenameAt(f, at, next) ==
    /\ pc = at
    /\ final' = [final EXCEPT ![f] = tmp[f]]
    /\ tmp' = [tmp EXCEPT ![f] = NoFile]
    /\ pc' = next
    /\ UNCHANGED <<src, undocumented, D, idx, isOpen, have_plot_svg, prev, lastOut,
                 run, fin, fout>>

\* the first rename done where the first stream should be closed
CloseGenRenames == RenameAt("gen", "close_gen", "close_instance")

CloseGen == CloseAt("gen", "close_gen", "close_instance")
CloseInstance == CloseAt("instance", "close_instance", "close_decl")
CloseDecl == CloseAt("decl", "close_decl", "rename_gen")

RenameGen == RenameAt("gen", "rename_gen", "rename_instance")
RenameInstance == RenameAt("instance", "rename_instance", "rename_decl")
RenameDecl == RenameAt("decl", "rename_decl", "done")

\* The run is cut short at the statement it is about to execute: an I/O error
\* or an interrupt propagates out of __call__.
Interrupt ==
    /\ pc \notin {"done", "aborted"}
    /\ pc' = "aborted"
    /\ UNCHANGED <<src, undocumented, D, idx, tmp, isOpen, final, have_plot_svg, prev, lastOut,
                 run, fin, fout>>

\* __call__ is called again on the unchanged catalog, which the source may
\* yield in another order: after a run that returned, or after one that
\* raised, whose '.tmp' paths and open streams are still there.
Rerun ==
    /\ pc \in {"done", "aborted"}
    /\ run < MaxRuns
    /\ src' \in Orders(src)
    /\ run' = run + 1
    /\ prev' = final
    /\ lastOut' = IF pc = "done" THEN final ELSE lastOut
    /\ D' = <<>>
    /\ idx' = 1
    /\ have_plot_svg' = FALSE
    /\ pc' = "start"
    /\ UNCHANGED <<undocumented, tmp, isOpen, final, fin, fout>>

Next ==
    \/ ReadAndSort
    \/ SortKeyError
    \/ OpenGen
    \/ WriteBannerGen
    \/ OpenInstance
    \/ WriteBannerInstance
    \/ OpenDecl
    \/ WriteBannerDecl
    \/ Reject
    \/ MissingCname
    \/ SkipUnsupported
    \/ WriteDeclaration
    \/ WriteGenMethod
    \/ WriteInstanceMethod
    \/ WriteFlag
    \/ CloseGen
    \/ CloseInstance
    \/ CloseDecl
    \/ RenameGen
    \/ RenameInstance
    \/ RenameDecl
    \/ Interrupt
    \/ Rerun

Spec == Init /\ [][Next]_vars

(***************************************************************************)
(* can_handle_function on its own, over arbitrary short names.             *)
(***************************************************************************)
Alphabet == {"O", "m", "y", "1", "_", "!", "\n"}

RECURSIVE Strings(_)
Strings(n) ==
    IF n = 0 THEN { <<>> }
    ELSE LET shorter == Strings(n - 1)
         IN  shorter \cup { Append(s, c) : s \in shorter, c \in Alphabet }

FilterNames ==
    Strings(MaxNameLen) \cup function_blacklist
        \cup { bnfinit, <<"_">> \o bnfinit, bnfinit \o <<"\n">>, plothraw }
FilterClasses == {"basic", "hard", "gp2c"}
FilterSections == {"programming/control", "number_fields"}

\* The arguments of a call: 'cname', 'class' and 'section' may each be missing.
FilterKeywords ==
    { [function |-> n] : n \in FilterNames }
    \cup { [function |-> n, class |-> c] : n \in FilterNames, c \in FilterClasses }
    \cup { [function |-> n, section |-> t] : n \in FilterNames, t \in FilterSections }
    \cup { [function |-> n, class |-> c, section |-> t] :
             n \in FilterNames, c \in FilterClasses, t \in FilterSections }

FilterInputs == FilterKeywords \cup { d @@ [cname |-> "bnfinit0"] : d \in FilterKeywords }

FilterInit ==
    /\ src = <<>>
    /\ undocumented = {}
    /\ D = <<>>
    /\ idx = 1
    /\ pc = "filter"
    /\ tmp = [f \in Files |-> NoFile]
    /\ isOpen = [f \in Files |-> FALSE]
    /\ final = [f \in Files |-> OldFile(f)]
    /\ have_plot_svg = FALSE
    /\ prev = final
    /\ lastOut = NoOutput
    /\ run = 1
    /\ fin = [function |-> <<>>]
    /\ fout = FALSE

\* G.can_handle_function(function, cname, **kwds)
FilterCall ==
    /\ pc = "filter"
    /\ fin' \in FilterInputs
    /\ fout' = can_handle_function(fin')
    /\ pc' = "filtered"
    /\ UNCHANGED <<src, undocumented, D, idx, tmp, isOpen, final, have_plot_svg, prev, lastOut, run>>

\* the caller drops the result and goes on to its next call
FilterReturn ==
    /\ pc = "filtered"
    /\ pc' = "filter"
    /\ fin' = [function |-> <<>>]
    /\ fout' = FALSE
    /\ UNCHANGED <<src, undocumented, D, idx, tmp, isOpen, final, have_plot_svg, prev, lastOut, run>>

FilterNext == FilterCall \/ FilterReturn

SpecFilter == FilterInit /\ [][FilterNext]_vars

(***************************************************************************)
(* C1.  can_handle_function returns True exactly when the name is not in   *)
(* the deny-list, the name starts with a letter and has only letters,      *)
(* digits and underscores after it, class is "basic" (a missing class is   *)
(* not basic) and section is not "programming/control"; otherwise False.   *)
(*                                                                         *)
(* The code accepts a name that ends in a newline (function_re's '$'), so  *)
(* the statement fails on such names.                                      *)
(***************************************************************************)
C1_TrueExactlyWhenAllFourHold ==
    pc = "filtered" =>
        (fout = TRUE <=>
            /\ fin.function \notin function_blacklist
            /\ Len(fin.function) >= 1
            /\ IsLetter(fin.function[1])
            /\ \A i \in 2..Len(fin.function) :
                   IsLetter(fin.function[i]) \/ IsDigit(fin.function[i])
                       \/ fin.function[i] = "_"
            /\ "class" \in DOMAIN fin /\ fin.class = "basic"
            /\ ~("section" \in DOMAIN fin /\ fin.section = "programming/control"))

(***************************************************************************)
(* Reading the streams.                                                    *)
(***************************************************************************)
\* What stream f holds: the '.tmp' file while it exists, else the final file.
Stream(f) == IF tmp[f] # NoFile THEN tmp[f] ELSE final[f]

IsMethod(chunk) == chunk[1].k = "def"
Methods(stream, name) ==
    {i \in 1..Len(stream) : IsMethod(stream[i]) /\ stream[i][1].name = name}
Decls(stream, cname) ==
    {i \in 1..Len(stream) : stream[i][1].k = "decl" /\ stream[i][1].x = cname}
MethodChunks(stream) == {stream[i] : i \in {j \in 1..Len(stream) : IsMethod(stream[j])}}
LinesOf(chunk, kind) == {i \in 1..Len(chunk) : chunk[i].k = kind}
CnameOf(chunk) == chunk[CHOOSE i \in 1..Len(chunk) : chunk[i].k = "call"].x

\* can_handle_function(**d) and parse_prototype(prototype, help) for the
\* records of the pool, the only ones a catalog holds.
AcceptedInPool == [d \in {e \in Pool : HasFunction(e)} |-> can_handle_function(d)]
ParseInPool ==
    [d \in Pool |-> parse_prototype(Get(d, "prototype", <<>>), Get(d, "help", <<>>), <<>>)]

Accepted(d) == AcceptedInPool[d]
PlainParse(d) == ParseInPool[d]
Supported(d) == PlainParse(d).ok
FirstArgumentIsHandle(d) ==
    /\ PlainParse(d).ok
    /\ Len(PlainParse(d).args) >= 1
    /\ PlainParse(d).args[1].kind = "GEN"
Records == 1..Len(D)

(***************************************************************************)
(* C2.  Failure isolation.  For a record whose prototype parse_prototype   *)
(* rejects, nothing is ever written to any of the three streams (no        *)
(* declaration line, no value method, no instance method), and the batch   *)
(* goes on: after the run every other accepted record with a supported     *)
(* prototype has its declaration and its instance method, and its value    *)
(* method when its first argument is a native handle.                      *)
(***************************************************************************)
C2_FailureIsolation ==
    \A i \in Records :
        (Accepted(D[i]) /\ "cname" \in DOMAIN D[i] /\ ~Supported(D[i])) =>
            /\ \A f \in Files : Methods(Stream(f), D[i].function) = {}
            /\ Decls(Stream("decl"), D[i].cname) = {}
            /\ pc = "done" =>
                 \A j \in Records \ {i} :
                     (Accepted(D[j]) /\ Supported(D[j])) =>
                         /\ Decls(final["decl"], D[j].cname) # {}
                         /\ Methods(final["instance"], D[j].function) # {}
                         /\ FirstArgumentIsHandle(D[j])
                                => Methods(final["gen"], D[j].function) # {}

\* A finished run in which a skipped record is followed by an emitted one.
C2_Witness ==
    /\ pc = "done"
    /\ \E i, j \in Records :
          /\ i < j
          /\ Accepted(D[i]) /\ ~Supported(D[i])
          /\ Methods(final["instance"], D[j].function) # {}
          /\ Decls(final["decl"], D[j].cname) # {}

\* C2 as stated: every other function appears in all three artifacts.
C2_OthersInAllThree ==
    pc = "done" =>
        \A i \in Records :
            (Accepted(D[i]) /\ ~Supported(D[i])) =>
                \A j \in Records \ {i} :
                    (Accepted(D[j]) /\ Supported(D[j])) =>
                        /\ Decls(final["decl"], D[j].cname) # {}
                        /\ Methods(final["instance"], D[j].function) # {}
                        /\ Methods(final["gen"], D[j].function) # {}

(***************************************************************************)
(* C3.  After a complete run every accepted function whose prototype is    *)
(* supported has exactly one line in the declaration stream and exactly    *)
(* one method in the instance stream; and while the streams are written,   *)
(* a method is never in the value or instance stream before the            *)
(* declaration of its native function is in the declaration stream.        *)
(***************************************************************************)
C3_OneDeclarationOneInstanceMethod ==
    /\ pc = "done" =>
         \A i \in Records :
             (Accepted(D[i]) /\ Supported(D[i])) =>
                 /\ Cardinality(Decls(final["decl"], D[i].cname)) = 1
                 /\ Cardinality(Methods(final["instance"], D[i].function)) = 1
    /\ (\A g \in Files : isOpen[g]) =>
         \A f \in {"gen", "instance"} :
             \A m \in MethodChunks(tmp[f]) : Decls(tmp["decl"], CnameOf(m)) # {}

\* A finished run of two accepted, supported functions, each declared once
\* and given one instance method.
C3_Witness ==
    /\ pc = "done"
    /\ Len(D) >= 2
    /\ \A i \in Records :
          /\ Accepted(D[i]) /\ Supported(D[i])
          /\ Cardinality(Decls(final["decl"], D[i].cname)) = 1
          /\ Cardinality(Methods(final["instance"], D[i].function)) = 1

\* C3 as stated: every function the filter accepts.
C3_EveryAcceptedFunction ==
    pc = "done" =>
        \A i \in Records :
            Accepted(D[i]) =>
                /\ Cardinality(Decls(final["decl"], D[i].cname)) = 1
                /\ Cardinality(Methods(final["instance"], D[i].function)) = 1

(***************************************************************************)
(* C4.  Atomic output.  A final path differs from what it held when the    *)
(* run started only after all three '.tmp' streams have been completely    *)
(* written and closed and the first rename has been done, and what it then *)
(* holds is a complete stream (banner first; the instance stream ends with *)
(* the HAVE_PLOT_SVG line): no final file is ever partially written, and a *)
(* run cut short before the first rename leaves all three unchanged.       *)
(* The three renames are separate steps: between the first and the last    *)
(* one the final files are a mix of the old and the new run.               *)
(***************************************************************************)
Complete(f, stream) ==
    /\ Len(stream) >= 1
    /\ stream[1] = banner(f)
    /\ f = "instance" =>
         /\ Len(stream) >= 2
         /\ stream[Len(stream)][1].k = "DEF HAVE_PLOT_SVG"

C4_FinalFilesReplacedOnlyAfterAllClosed ==
    /\ (final # prev) =>
          /\ \A g \in Files : ~isOpen[g]
          /\ tmp["gen"] = NoFile
          /\ pc \in {"rename_instance", "rename_decl", "done", "aborted"}
    /\ \A f \in Files :
          final[f] # prev[f] => (tmp[f] = NoFile /\ Complete(f, final[f]))

\* A run cut short while the streams are written: the final files are the old ones.
C4_Witness ==
    /\ pc = "aborted"
    /\ \A g \in Files : isOpen[g]
    /\ Len(tmp["instance"]) >= 2
    /\ final = [f \in Files |-> OldFile(f)]

\* C4 as stated: a run that stops at any step leaves all three final files unchanged.
C4_InterruptedRunChangesNothing ==
    pc = "aborted" => final = prev

(***************************************************************************)
(* C5.  A missing required key aborts the run.  A record without           *)
(* 'function' makes the sort fail before any stream is opened.  A record   *)
(* that the filter accepts and that has no 'cname' makes                   *)
(* handle_pari_function fail: the loop never gets past that record, no     *)
(* rename is performed and the final files keep their previous content.    *)
(* (A record without 'cname' that the filter rejects is skipped like any   *)
(* other rejected record.)                                                 *)
(***************************************************************************)
C5_MissingKeyAborts ==
    /\ (\E i \in 1..Len(src) : ~HasFunction(src[i])) =>
          /\ pc \in {"start", "aborted"}
          /\ D = <<>> /\ idx = 1
          /\ tmp = [f \in Files |-> NoFile]
          /\ final = prev
    /\ \A i \in Records :
          (Accepted(D[i]) /\ "cname" \notin DOMAIN D[i]) =>
              /\ idx <= i
              /\ pc \in {"open_gen", "banner_gen", "open_instance",
                         "banner_instance", "open_decl", "banner_decl", "loop",
                         "gen", "instance", "aborted"}
              /\ final = prev

\* The run has stopped at an accepted record without a C name, a record after it.
C5_Witness ==
    /\ pc = "aborted"
    /\ idx < Len(D)
    /\ Accepted(D[idx]) /\ "cname" \notin DOMAIN D[idx]
    /\ \A g \in Files : isOpen[g]
    /\ final = prev

\* C5 as stated: no run completes on a catalog with a record that lacks
\* 'function' or 'cname'.
C5_AnyMissingKeyAborts ==
    (\E i \in 1..Len(src) : ~HasFunction(src[i]) \/ "cname" \notin DOMAIN src[i])
        => pc # "done"

(***************************************************************************)
(* C6.  Every method follows the template: signature line, docstring       *)
(* block (exactly when the documentation source returns a text that is not *)
(* empty, and then holding that text, indented), obsolescence              *)
(* warning, undocumented-parameter warnings, conversion statements,        *)
(* sig_on, native call, return or clear statement; with exactly one        *)
(* sig_on, after every conversion and immediately before the native call.  *)
(***************************************************************************)
Rank(kind) ==
    CASE kind = "def" -> 1
      [] kind = "doc" -> 2
      [] kind = "import_warn" -> 3
      [] kind = "warn_obsolete" -> 4
      [] kind = "warn_undocumented" -> 5
      [] kind = "convert" -> 6
      [] kind = "sig_on" -> 7
      [] kind = "call" -> 8
      [] kind \in {"return", "clear_stack"} -> 9
      [] OTHER -> 0

FollowsTemplate(m) ==
    LET n == Len(m)
    IN  /\ n >= 4
        /\ \A i \in 1..n : Rank(m[i].k) > 0
        /\ \A i \in 1..(n - 1) : Rank(m[i].k) <= Rank(m[i + 1].k)
        /\ \A kind \in {"def", "sig_on", "call"} : Cardinality(LinesOf(m, kind)) = 1
        /\ \A kind \in {"doc", "import_warn", "warn_obsolete"} :
               Cardinality(LinesOf(m, kind)) <= 1
        /\ m[1].k = "def"
        /\ (LinesOf(m, "doc") # {}) <=> (get_rest_doc(m[1].name) # <<>>)
        /\ \A i \in LinesOf(m, "doc") : m[i].args = <<IndentDoc(get_rest_doc(m[1].name))>>
        /\ m[n - 2].k = "sig_on" /\ m[n - 1].k = "call"
        /\ m[n].k \in {"return", "clear_stack"}
        /\ \A i \in LinesOf(m, "convert") : i < n - 2

C6_MethodsFollowTemplate ==
    \A f \in {"gen", "instance"} : \A m \in MethodChunks(Stream(f)) : FollowsTemplate(m)

\* A method with every optional part of the template, and a method of a
\* function without documentation.
C6_Witness ==
    /\ \E f \in {"gen", "instance"} : \E m \in MethodChunks(Stream(f)) :
          /\ LinesOf(m, "doc") # {}
          /\ LinesOf(m, "warn_obsolete") # {}
          /\ LinesOf(m, "warn_undocumented") # {}
          /\ Cardinality(LinesOf(m, "convert")) >= 2
    /\ \E m \in MethodChunks(Stream("instance")) :
          /\ get_rest_doc(m[1].name) = <<>>
          /\ LinesOf(m, "doc") = {}

(***************************************************************************)
(* C7.  For a record with an obsolescence marker, every method emitted     *)
(* for it starts its body, right after the docstring, with the deprecation *)
(* warning, whose message holds the function name and the marker; the      *)
(* warning comes before every undocumented-parameter warning, conversion,  *)
(* sig_on and native call.  For a record without a marker no method has    *)
(* such a warning.                                                         *)
(***************************************************************************)
WarningFirst(m, d) ==
    LET b == IF m[2].k = "doc" THEN 3 ELSE 2
    IN  /\ Len(m) > b + 1
        /\ m[b].k = "import_warn"
        /\ m[b + 1].k = "warn_obsolete"
        /\ m[b + 1].name = d.function
        /\ m[b + 1].x = d.obsolete
        /\ LinesOf(m, "warn_obsolete") = {b + 1}
        /\ \A i \in 1..Len(m) :
               m[i].k \in {"warn_undocumented", "convert", "sig_on", "call"} => i > b + 1

C7_ObsoleteWarningFirst ==
    \A i \in Records : \A f \in {"gen", "instance"} :
        \A k \in Methods(Stream(f), D[i].function) :
            IF "obsolete" \in DOMAIN D[i]
            THEN WarningFirst(Stream(f)[k], D[i])
            ELSE LinesOf(Stream(f)[k], "warn_obsolete") = {}

\* Both methods of an obsolete function and a method of one that is not obsolete.
C7_Witness ==
    \E i, j \in Records :
        /\ "obsolete" \in DOMAIN D[i]
        /\ Methods(Stream("gen"), D[i].function) # {}
        /\ Methods(Stream("instance"), D[i].function) # {}
        /\ "obsolete" \notin DOMAIN D[j]
        /\ Methods(Stream("instance"), D[j].function) # {}

(***************************************************************************)
(* C8.  A function gets a value method exactly when the plain parse of its *)
(* prototype has at least one argument and the first one is of the native  *)
(* handle kind; never more than one.                                       *)
(***************************************************************************)
C8_ValueMethodIffFirstArgumentIsHandle ==
    \A i \in Records :
        /\ Cardinality(Methods(Stream("gen"), D[i].function)) <= 1
        /\ Methods(Stream("gen"), D[i].function) # {} => FirstArgumentIsHandle(D[i])
        /\ (pc = "done" /\ Accepted(D[i])) =>
              (Methods(final["gen"], D[i].function) # {} <=> FirstArgumentIsHandle(D[i]))

\* A finished run with a value method for one function and none for another,
\* supported one.
C8_Witness ==
    /\ pc = "done"
    /\ \E i, j \in Records :
          /\ Methods(final["gen"], D[i].function) # {}
          /\ Accepted(D[j]) /\ Supported(D[j])
          /\ Methods(final["instance"], D[j].function) # {}
          /\ Methods(final["gen"], D[j].function) = {}

(***************************************************************************)
(* C9.  The records are processed in sorted order of function name, and a  *)
(* run that returns on the unchanged catalog, in whatever order the source *)
(* yields it, leaves the three final files as the last run that returned   *)
(* left them (also when runs that raised lie in between).                  *)
(***************************************************************************)
C9_SortedAndIdempotent ==
    /\ \A i, j \in Records : i < j => ~StrLess(D[j].function, D[i].function)
    /\ (pc = "done" /\ lastOut # NoOutput) => final = lastOut

\* A run that returned after an earlier one did, the source having yielded the
\* records in another order than the sorted one.
C9_Witness ==
    /\ pc = "done"
    /\ run > 1
    /\ Len(src) >= 2
    /\ src # D
    /\ lastOut # NoOutput
    /\ final = lastOut

(***************************************************************************)
(* C10.  After a complete run the instance stream ends with exactly one    *)
(* line DEF HAVE_PLOT_SVG = <flag>, after the last method, and the flag is *)
(* True exactly when the catalog has a function plothraw that the          *)
(* eligibility filter accepts (also when its prototype is unsupported and  *)
(* no method is emitted for it).                                           *)
(***************************************************************************)
FlagChunks(stream) == {i \in 1..Len(stream) : stream[i][1].k = "DEF HAVE_PLOT_SVG"}

C10_FlagLine ==
    /\ FlagChunks(Stream("instance")) \subseteq {Len(Stream("instance"))}
    /\ FlagChunks(Stream("gen")) = {} /\ FlagChunks(Stream("decl")) = {}
    /\ pc = "done" =>
          /\ FlagChunks(final["instance"]) = {Len(final["instance"])}
          /\ final["instance"][Len(final["instance"])] =
                 FlagLine(\E i \in Records :
                              D[i].function = plothraw /\ Accepted(D[i]))

\* A finished run that emitted plothraw after another function.
C10_Witness ==
    /\ pc = "done"
    /\ Len(D) >= 2
    /\ Methods(final["instance"], plothraw) # {}
    /\ final["instance"][Len(final["instance"])] = FlagLine(TRUE)

\* C10 as stated: the flag is True exactly when an instance method for
\* plothraw was emitted.
C10_FlagIffMethodEmitted ==
    pc = "done" =>
        (final["instance"][Len(final["instance"])] = FlagLine(TRUE)
            <=> Methods(final["instance"], plothraw) # {})

====
